---- MODULE Spec2Model ----
(***************************************************************************)
(* Code Tutor backend: authentication and token life cycle.                *)
(*                                                                         *)
(* Time is counted in whole seconds (the unit of the JWT iat/exp claims).  *)
(* A JWT is a record: its payload fields, the secret that signed it (key)  *)
(* and its pinned audience/issuer.  A random 16-byte token id is a fresh   *)
(* positive integer; 0 stands for "no id".                                 *)
(***************************************************************************)
EXTENDS Integers, Sequences, FiniteSets, TLC

VARIABLES
  now,            \* Date.now(), in seconds
  ticks,          \* number of clock advances so far
  grants,         \* results returned by generateTokens / refreshAccessToken
  nextJti,        \* next value of generateTokenId()
  revokedTokens,  \* jwtService: const revokedTokens = new Set()
  revokeDone,     \* tokens for which revokeToken() has resolved
  resp,           \* outcome of the last call / last HTTP response
  users,          \* the User collection
  accepted,       \* the {email, password} pairs a registration answered 201 for
  failedStreak,   \* per email: login requests answered with a failure in a row
  streakAt,       \* per email: when the fifth failure in a row was answered
  session,        \* req.session of the browser that runs the OAuth flow
  nextState,      \* next value of the random OAuth state
  exchangeCalls,  \* calls made to the provider's token endpoint
  mounted,        \* which githubRoutes.js the server mounts
  consumed,       \* states carried by callbacks that matched the stored state
  startedAt,      \* when the pending authorization was started (-1: none)
  loginAttempts,  \* user.loginAttempts of one user, as stored
  recording,      \* per request: where it is in recording a failed login
  failures,       \* failed logins recorded since the last reset, and the
                  \* time of the latest
  registering,    \* per request: where it is in registerUser
  loggedOut,      \* access tokens that authenticated a successful logout
  logoutCall,     \* the logout request whose session.destroy is under way
  octokitCache,   \* the OctokitCache: its entries, its intervals map, the
                  \* timers pending in the runtime, the next timer handle
  lastSet         \* per key: when it was last set, and whether that set
                  \* replaced an entry set earlier

storeVars == <<users, accepted, failedStreak, streakAt>>
oauthVars == <<session, nextState, exchangeCalls, mounted, consumed, startedAt>>
raceVars == <<loginAttempts, recording, failures, registering>>
logoutVars == <<loggedOut, logoutCall>>
cacheVars == <<octokitCache, lastSet>>
vars == <<now, ticks, grants, nextJti, revokedTokens, revokeDone, resp,
          storeVars, oauthVars, raceVars, logoutVars, cacheVars>>

(***************************************************************************)
(* Configuration (dotenvConfig.js)                                         *)
(***************************************************************************)
Undefined == "undefined"
NoDuration == [num |-> 0, unit |-> "none"]

\* "1h": digits followed by an optional unit letter
JWT_EXPIRATION == [num |-> 1, unit |-> "h"]
REFRESH_TOKEN_EXPIRATION == [num |-> 7, unit |-> "d"]
\* the config object has no JWT_AUDIENCE / JWT_ISSUER key
config_JWT_AUDIENCE == Undefined
config_JWT_ISSUER == Undefined
JWT_SECRET == "JWT_SECRET"
REFRESH_TOKEN_SECRET == "REFRESH_TOKEN_SECRET"

\* revokeToken sweeps when revokedTokens.size exceeds this
SweepThreshold == 1000

TOKEN_TYPES == [ACCESS |-> "access", REFRESH |-> "refresh"]

\* handleFailedLogin: const lockDuration = 15 * 60 * 1000, in seconds
LockDuration == 15 * 60
\* req.session before anything is stored in it; 0 is "no state"
NoSession ==
  [githubState |-> 0, authStartTime |-> 0, returnTo |-> "", oauth2 |-> 0,
   user |-> ""]
\* what an OAuth response records: the state of the query, the state the
\* session held, whether a code came, token-endpoint calls made, Location,
\* whether the GitHub account of the request exposes a primary email
NoOAuth ==
  [state |-> 0, stored |-> 0, code |-> FALSE, exchanged |-> 0, location |-> "",
   replay |-> FALSE, params |-> <<>>, primaryEmail |-> TRUE]

Emails == {"alice@x.com", "Alice@X.com", "bob@x.com"}
\* the spellings of one address
AliceEmails == {"alice@x.com", "Alice@X.com"}

\* the requests that record a failed login at the same time
MaxRequests == 2
Requests == 1 .. MaxRequests
\* a request that holds no user document; done counts the failed logins it
\* has recorded
NotRecording(done) ==
  [pc |-> "idle", count |-> 0, lockedUntil |-> 0, done |-> done]
\* a request that has not called registerUser
NotRegistering ==
  [pc |-> "idle", status |-> "", username |-> "", email |-> "",
   password |-> [kind |-> "missing"], salt |-> "", hookSalt |-> ""]
\* String.prototype.toLowerCase on the e-mail addresses in use
ToLowerCase(e) == IF e = "Alice@X.com" THEN "alice@x.com" ELSE e

\* a || b on strings
OrElse(a, b) == IF a = Undefined THEN b ELSE a

(***************************************************************************)
(* Durations: what jsonwebtoken (through ms) and parseInt make of a        *)
(* duration string                                                         *)
(***************************************************************************)
UnitSeconds(unit) ==
  CASE unit = "m" -> 60
    [] unit = "h" -> 3600
    [] unit = "d" -> 86400
    [] unit = "w" -> 604800
    [] unit = "y" -> 31557600

\* jsonwebtoken timespan(): a string without unit is a number of milliseconds
Timespan(d, iat) ==
  IF d.unit = "" THEN iat + (d.num \div 1000) ELSE iat + d.num * UnitSeconds(d.unit)

\* parseInt("1h") reads the leading digits and stops at the unit letter
ParseInt(d) == d.num

(***************************************************************************)
(* OctokitCache (githubApiService.js)                                      *)
(***************************************************************************)
\* constructor(ttl = 3600000): milliseconds
OctokitTtl == 3600000
\* timer handles the model hands out
MaxTimers == 4
\* GitHub access tokens used as keys, and the instances stored
AccessTokens == {"gho_a", "gho_b"}
Octokits == {"octokit1", "octokit2"}
\* clock steps in seconds: half a TTL and a whole one, up to three TTLs
CacheTickSteps == {OctokitTtl \div 2000, OctokitTtl \div 1000}
CacheHorizon == 3 * (OctokitTtl \div 1000)

\* new OctokitCache(ttl): an empty Map and an empty intervals Map
NewOctokitCache(ttl) ==
  [ttl |-> ttl \div 1000, entries |-> {}, intervals |-> {}, timers |-> {},
   nextTimer |-> 1]

\* Map.prototype.has, set and delete on a set of [key, value] pairs
MapHas(m, key) == \E e \in m : e.key = key
MapGet(m, key) == (CHOOSE e \in m : e.key = key).value
MapSet(m, key, value) ==
  {e \in m : e.key # key} \cup {[key |-> key, value |-> value]}
MapDelete(m, key) == {e \in m : e.key # key}

\* clearTimeout(handle): a handle that is not pending is ignored
clearTimeout(timers, handle) == {x \in timers : x.id # handle}

\* a set that leaves the key's earlier timer running
set_keepsTimer(c, key, value, t) ==
  LET interval == c.nextTimer
  IN [c EXCEPT !.timers = @ \cup {[id |-> interval, key |-> key,
                                   due |-> t + c.ttl]},
               !.nextTimer = @ + 1,
               !.intervals = MapSet(@, key, interval),
               !.entries = MapSet(@, key, value)]

\* OctokitCache.set(key, value) at time t
set(c, key, value, t) ==
  LET cleared == IF MapHas(c.intervals, key)
                 THEN clearTimeout(c.timers, MapGet(c.intervals, key))
                 ELSE c.timers
      interval == c.nextTimer
  IN [c EXCEPT !.timers = cleared \cup {[id |-> interval, key |-> key,
                                         due |-> t + c.ttl]},
               !.nextTimer = @ + 1,
               !.intervals = MapSet(@, key, interval),
               !.entries = MapSet(@, key, value)]

\* OctokitCache.delete(key)
delete(c, key) ==
  LET cleared == IF MapHas(c.intervals, key)
                 THEN clearTimeout(c.timers, MapGet(c.intervals, key))
                 ELSE c.timers
  IN [c EXCEPT !.timers = cleared,
               !.intervals = MapDelete(@, key),
               !.entries = MapDelete(@, key)]

\* OctokitCache.clear()
clear(c) ==
  [c EXCEPT !.timers = {x \in @ : \A i \in c.intervals : x.id # i.value},
            !.intervals = {},
            !.entries = {}]

\* the callback given to setTimeout in set, run for a timer that is due:
\* this.delete(key), then this.intervals.delete(key)
timeout(c, timer) ==
  LET d == delete([c EXCEPT !.timers = @ \ {timer}], timer.key)
  IN [d EXCEPT !.intervals = MapDelete(@, timer.key)]

(***************************************************************************)
(* Bounds                                                                  *)
(***************************************************************************)
MaxTicks == 1
MaxGrants == 1
\* clock steps: two seconds, and an hour
TickSteps == {2, UnitSeconds("h")}

(***************************************************************************)
(* JWT values                                                              *)
(***************************************************************************)
NoTok == [kind |-> "none"]
Malformed == [kind |-> "garbage"]

SignAccess(jti, id, username, role, iat) ==
  [kind |-> "jwt", key |-> JWT_SECRET, jti |-> jti, id |-> id,
   username |-> username, role |-> role, type |-> TOKEN_TYPES.ACCESS,
   tokenId |-> 0, iat |-> iat, exp |-> Timespan(JWT_EXPIRATION, iat),
   aud |-> OrElse(config_JWT_AUDIENCE, "code-tutor-api"),
   iss |-> OrElse(config_JWT_ISSUER, "code-tutor")]

SignRefresh(jti, id, tokenId, iat) ==
  [kind |-> "jwt", key |-> REFRESH_TOKEN_SECRET, jti |-> jti, id |-> id,
   username |-> Undefined, role |-> Undefined, type |-> TOKEN_TYPES.REFRESH,
   tokenId |-> tokenId, iat |-> iat,
   exp |-> Timespan(REFRESH_TOKEN_EXPIRATION, iat),
   aud |-> OrElse(config_JWT_AUDIENCE, "code-tutor-api"),
   iss |-> OrElse(config_JWT_ISSUER, "code-tutor")]

\* a well-formed token signed with a secret the server does not use
Forged == [SignAccess(0, "u9", "mallory", "admin", 0) EXCEPT !.key = "attacker"]

\* tokens signed with the server's access secret (HS256 is symmetric: any
\* holder of the secret can sign) for another audience, or by another issuer
OtherAudience ==
  [SignAccess(90, "u1", "alice", "student", 0) EXCEPT !.aud = "other-api"]
OtherIssuer ==
  [SignAccess(91, "u1", "alice", "student", 0) EXCEPT !.iss = "other-service"]

JwtErr(name, message) == [ok |-> FALSE, name |-> name, message |-> message]
JwtOk == [ok |-> TRUE, name |-> "", message |-> ""]

\* jwt.verify(token, secret, {algorithms, audience, issuer, maxAge}) at time t
JwtVerify(token, secret, opts, t) ==
  IF token.kind # "jwt" THEN JwtErr("JsonWebTokenError", "jwt malformed")
  ELSE IF token.key # secret THEN JwtErr("JsonWebTokenError", "invalid signature")
  ELSE IF t >= token.exp THEN JwtErr("TokenExpiredError", "jwt expired")
  ELSE IF opts.audience # Undefined /\ token.aud # opts.audience
    THEN JwtErr("JsonWebTokenError", "jwt audience invalid")
  ELSE IF opts.issuer # Undefined /\ token.iss # opts.issuer
    THEN JwtErr("JsonWebTokenError", "jwt issuer invalid")
  ELSE IF opts.maxAge # NoDuration /\ t >= Timespan(opts.maxAge, token.iat)
    THEN JwtErr("TokenExpiredError", "maxAge exceeded")
  ELSE JwtOk

\* jwt.decode(string): the payload of a JWT, null for any other string.
\* A token id is a hex string, which is not a JWT.
HexString(n) == [kind |-> "hex", n |-> n]
JwtDecode(s) == IF s.kind = "jwt" THEN s ELSE NoTok

(***************************************************************************)
(* jwtService.js                                                           *)
(***************************************************************************)
Thrown(name, message) ==
  [ok |-> FALSE, name |-> name, message |-> message, decoded |-> NoTok]
Returned(decoded) ==
  [ok |-> TRUE, name |-> "", message |-> "", decoded |-> decoded]

PinnedOpts(maxAge) ==
  [audience |-> OrElse(config_JWT_AUDIENCE, "code-tutor-api"),
   issuer |-> OrElse(config_JWT_ISSUER, "code-tutor"),
   maxAge |-> maxAge]

validateUserData(user) ==
  IF user.id = Undefined THEN Thrown("Error", "User ID is required")
  ELSE IF user.username = Undefined THEN Thrown("Error", "Username is required")
  ELSE Returned(NoTok)

\* the value generateTokens returns
generateTokens(user, jti, t) ==
  [accessToken |-> SignAccess(jti, user.id, user.username,
                              OrElse(user.role, "user"), t),
   refreshToken |-> SignRefresh(jti + 1, user.id, jti, t),
   expiresIn |-> ParseInt(JWT_EXPIRATION)]

\* verifyToken without the look-up in the revoked set
verifyToken_noRevocationCheck(token, type, revoked, t) ==
  LET secret == IF type = TOKEN_TYPES.REFRESH THEN REFRESH_TOKEN_SECRET
                ELSE JWT_SECRET
      v == JwtVerify(token, secret, PinnedOpts(NoDuration), t)
  IN IF ~v.ok THEN Thrown(v.name, v.message)
     ELSE IF token.type # type THEN Thrown("Error", "Invalid token type")
     ELSE Returned(token)

verifyToken(token, type, revoked, t) ==
  LET secret == IF type = TOKEN_TYPES.REFRESH THEN REFRESH_TOKEN_SECRET
                ELSE JWT_SECRET
      v == JwtVerify(token, secret, PinnedOpts(NoDuration), t)
  IN IF ~v.ok THEN Thrown(v.name, v.message)
     ELSE IF token.jti \in revoked THEN Thrown("Error", "Token has been revoked")
     ELSE IF token.type # type THEN Thrown("Error", "Invalid token type")
     ELSE Returned(token)

validateToken(token, t) ==
  LET v == JwtVerify(token, JWT_SECRET, PinnedOpts(NoDuration), t)
  IN IF ~v.ok THEN Thrown(v.name, v.message)
     ELSE IF token.id = Undefined \/ token.type = Undefined
       THEN Thrown("Error", "Invalid token structure")
     ELSE Returned(token)

\* the entries a sweep removes from the revoked set
SweptIds(revoked, t) ==
  {tokenId \in revoked :
     LET decoded == JwtDecode(HexString(tokenId))
     IN decoded # NoTok /\ decoded.exp < t}

clearExpiredTokens(revoked, t) == revoked \ SweptIds(revoked, t)

(***************************************************************************)
(* Responses                                                               *)
(***************************************************************************)
NoString == [kind |-> "missing"]
\* no Authorization header
NoHeader == [present |-> FALSE, prefix |-> "", lead |-> FALSE, tok |-> NoTok]
NoReq ==
  [username |-> Undefined, email |-> Undefined, password |-> NoString,
   dup |-> FALSE]
NoUser == [id |-> Undefined, username |-> Undefined, role |-> Undefined]
NoGrant == [accessToken |-> NoTok, refreshToken |-> NoTok, expiresIn |-> 0]

Resp(op, status, error, tok, type, user, grant, trace) ==
  [op |-> op, status |-> status, error |-> error, tok |-> tok, type |-> type,
   user |-> user, grant |-> grant, trace |-> trace, roles |-> {},
   body |-> <<>>, req |-> NoReq, streak |-> 0, cookies |-> {},
   oauth |-> NoOAuth, header |-> NoHeader]

NoResp == Resp("none", "", "", NoTok, "", NoUser, NoGrant, <<>>)

ServiceResp(op, r, tok, type) ==
  Resp(op, IF r.ok THEN "returned" ELSE "thrown",
       IF r.ok THEN "" ELSE r.message, tok, type, NoUser, NoGrant, <<>>)

\* the grants made by generateTokens (a refreshed grant has no refresh token)
Generated == {g \in grants : g.refreshToken # NoTok}

\* tokens a client can present
IssuedTokens ==
  {g.accessToken : g \in grants} \cup
  ({g.refreshToken : g \in grants} \ {NoTok})
Presentable == IssuedTokens \cup {Malformed, Forged}

(***************************************************************************)
(* Token Service calls                                                     *)
(***************************************************************************)
UserObjects ==
  {[id |-> "u1", username |-> "alice", role |-> "student"],
   [id |-> "u2", username |-> "bob", role |-> "mentor"],
   [id |-> "u3", username |-> "carol", role |-> "admin"]}

InitBase ==
  /\ now = 0
  /\ ticks = 0
  /\ grants = {}
  /\ nextJti = 1
  /\ revokedTokens = {}
  /\ revokeDone = {}
  /\ resp = NoResp
  /\ users = {}
  /\ accepted = {}
  /\ failedStreak = [e \in {ToLowerCase(x) : x \in Emails} |-> 0]
  /\ streakAt = [e \in {ToLowerCase(x) : x \in Emails} |-> 0]
  /\ session = NoSession
  /\ nextState = 1
  /\ exchangeCalls = 0
  /\ consumed = {}
  /\ startedAt = -1
  /\ loginAttempts = [count |-> 0, lockedUntil |-> 0]
  /\ recording = [r \in Requests |-> NotRecording(0)]
  /\ loggedOut = {}
  /\ octokitCache = NewOctokitCache(OctokitTtl)
  /\ lastSet = [k \in AccessTokens |-> [at |-> 0, again |-> FALSE]]
  /\ logoutCall = [pc |-> "idle", routes |-> "", header |-> NoHeader,
                   responses |-> 0]
  /\ failures = [sinceReset |-> 0, lastAt |-> 0]
  /\ registering = [r \in Requests |-> NotRegistering]

\* the server mounts the githubRoutes.js of 2024-11-12
Init == InitBase /\ mounted = "simplified"

\* d seconds pass; no call is being answered
Tick(d) ==
  /\ ticks < MaxTicks
  /\ now' = now + d
  /\ ticks' = ticks + 1
  /\ resp' = NoResp
  /\ UNCHANGED <<grants, nextJti, revokedTokens, revokeDone, storeVars, oauthVars, raceVars, logoutVars, cacheVars>>

GenerateTokens(user) ==
  /\ Cardinality(Generated) < MaxGrants
  /\ LET c == validateUserData(user)
         g == generateTokens(user, nextJti, now)
     IN IF ~c.ok
        THEN /\ resp' = ServiceResp("generateTokens", c, NoTok, "")
             /\ UNCHANGED <<grants, nextJti>>
        ELSE /\ grants' = grants \cup {g}
             /\ nextJti' = nextJti + 2
             /\ resp' = Resp("generateTokens", "returned", "", NoTok, "",
                             user, g, <<>>)
  /\ UNCHANGED <<now, ticks, revokedTokens, revokeDone, storeVars, oauthVars, raceVars, logoutVars, cacheVars>>

VerifyTokenCall(token, type) ==
  /\ resp' = ServiceResp("verifyToken",
                         verifyToken(token, type, revokedTokens, now),
                         token, type)
  /\ UNCHANGED <<now, ticks, grants, nextJti, revokedTokens, revokeDone, storeVars, oauthVars, raceVars, logoutVars, cacheVars>>

ValidateTokenCall(token) ==
  /\ resp' = ServiceResp("validateToken", validateToken(token, now),
                         token, TOKEN_TYPES.ACCESS)
  /\ UNCHANGED <<now, ticks, grants, nextJti, revokedTokens, revokeDone, storeVars, oauthVars, raceVars, logoutVars, cacheVars>>

RevokeTokenCall(token, type) ==
  LET r == verifyToken(token, type, revokedTokens, now)
      added == revokedTokens \cup {token.jti}
  IN /\ IF r.ok
        THEN /\ revokedTokens' = IF Cardinality(added) > 1000
                                 THEN clearExpiredTokens(added, now)
                                 ELSE added
             /\ revokeDone' = revokeDone \cup {token}
        ELSE UNCHANGED <<revokedTokens, revokeDone>>
     /\ resp' = ServiceResp("revokeToken", r, token, type)
     /\ UNCHANGED <<now, ticks, grants, nextJti, storeVars, oauthVars, raceVars, logoutVars, cacheVars>>

\* setInterval(clearExpiredTokens, 3600000)
ClearExpiredTokens ==
  /\ revokedTokens' = clearExpiredTokens(revokedTokens, now)
  /\ resp' = Resp("clearExpiredTokens", "returned", "", NoTok, "", NoUser,
                  NoGrant, <<>>)
  /\ UNCHANGED <<now, ticks, grants, nextJti, revokeDone, storeVars, oauthVars, raceVars, logoutVars, cacheVars>>

RefreshAccessTokenCall(token) ==
  LET r == verifyToken(token, TOKEN_TYPES.REFRESH, revokedTokens, now)
      g == [accessToken |-> SignAccess(nextJti, token.id, Undefined,
                                       Undefined, now),
            refreshToken |-> NoTok,
            expiresIn |-> ParseInt(JWT_EXPIRATION)]
  IN /\ Cardinality(grants \ Generated) < Cardinality(Generated)
     /\ IF r.ok
        THEN /\ grants' = grants \cup {g}
             /\ nextJti' = nextJti + 1
             /\ resp' = Resp("refreshAccessToken", "returned", "", token,
                             TOKEN_TYPES.REFRESH, NoUser, g, <<>>)
        ELSE /\ resp' = ServiceResp("refreshAccessToken", r, token,
                                    TOKEN_TYPES.REFRESH)
             /\ UNCHANGED <<grants, nextJti>>
     /\ UNCHANGED <<now, ticks, revokedTokens, revokeDone, storeVars, oauthVars, raceVars, logoutVars, cacheVars>>

(***************************************************************************)
(* authMiddleware.js, checkRoleMiddleware.js                               *)
(*                                                                         *)
(* An Authorization header is absent, or a prefix followed by a rest; the  *)
(* rest is optional blanks (lead) and then a token or nothing (NoTok).     *)
(***************************************************************************)
AUTH_ERRORS ==
  [NO_TOKEN |-> "Access denied. No Authorization header.",
   INVALID_FORMAT |-> "Access denied. Invalid Authorization format.",
   EMPTY_TOKEN |-> "Access denied. Empty token.",
   EXPIRED |-> "Token expired. Please log in again.",
   INVALID |-> "Authentication failed. Please log in again.",
   INTERNAL |-> "Internal server error during authentication."]

Bearer(tok) == [present |-> TRUE, prefix |-> "Bearer ", lead |-> FALSE, tok |-> tok]
BearerPadded(tok) == [Bearer(tok) EXCEPT !.lead = TRUE]
BasicHeader == [present |-> TRUE, prefix |-> "Basic ", lead |-> FALSE, tok |-> Malformed]

\* extractToken without the trim(): blanks stay in front of the token
extractToken_untrimmed(authHeader) ==
  IF ~authHeader.present
    THEN [isValid |-> FALSE, error |-> AUTH_ERRORS.NO_TOKEN, token |-> NoTok]
  ELSE IF authHeader.prefix # "Bearer "
    THEN [isValid |-> FALSE, error |-> AUTH_ERRORS.INVALID_FORMAT, token |-> NoTok]
  ELSE IF authHeader.tok = NoTok /\ ~authHeader.lead
    THEN [isValid |-> FALSE, error |-> AUTH_ERRORS.EMPTY_TOKEN, token |-> NoTok]
  ELSE [isValid |-> TRUE, error |-> "",
        token |-> IF authHeader.lead THEN Malformed ELSE authHeader.tok]

extractToken(authHeader) ==
  IF ~authHeader.present
    THEN [isValid |-> FALSE, error |-> AUTH_ERRORS.NO_TOKEN, token |-> NoTok]
  ELSE IF authHeader.prefix # "Bearer "
    THEN [isValid |-> FALSE, error |-> AUTH_ERRORS.INVALID_FORMAT, token |-> NoTok]
  ELSE IF authHeader.tok = NoTok
    THEN [isValid |-> FALSE, error |-> AUTH_ERRORS.EMPTY_TOKEN, token |-> NoTok]
  ELSE [isValid |-> TRUE, error |-> "", token |-> authHeader.tok]

\* what a middleware leaves behind: whether it called next(), the response
\* it sent (status "" when it sent none) and req.user
Passed(user) == [next |-> TRUE, status |-> "", error |-> "", user |-> user]
Answered(status, error, user) ==
  [next |-> FALSE, status |-> status, error |-> error, user |-> user]

\* verifyToken that logs a failed verification and goes on to next()
authMiddleware_verifyToken_fallsThrough(authHeader, user, t) ==
  LET token == extractToken(authHeader).token
  IN Passed(IF token.kind = "jwt"
            THEN [id |-> token.id, username |-> token.username,
                  role |-> OrElse(token.role, "user")]
            ELSE [id |-> "anonymous", username |-> "anonymous", role |-> "user"])

\* authMiddleware.js verifyToken(req, res, next)
authMiddleware_verifyToken(authHeader, user, t) ==
  LET x == extractToken(authHeader)
      token == x.token
      v == JwtVerify(token, JWT_SECRET, PinnedOpts(JWT_EXPIRATION), t)
  IN IF ~x.isValid THEN Answered("401", x.error, user)
     ELSE IF ~v.ok
       THEN IF v.name = "TokenExpiredError"
            THEN Answered("401", AUTH_ERRORS.EXPIRED, user)
            ELSE Answered("401", AUTH_ERRORS.INVALID, user)
     ELSE IF token.id = Undefined \/ token.username = Undefined
       THEN Answered("401", AUTH_ERRORS.INVALID, user)
     ELSE Passed([id |-> token.id, username |-> token.username,
                  role |-> OrElse(token.role, "user")])

\* the second element of authMiddleware.requireRoles(roles)
requireRoles_check(roles, user) ==
  IF user = NoUser THEN Answered("401", "Authentication required", user)
  ELSE IF user.role \notin roles
    THEN Answered("403", "Insufficient privileges", user)
  ELSE Passed(user)

ROLE_HIERARCHY(role) ==
  CASE role = "admin" -> {"admin", "mentor", "student"}
    [] role = "mentor" -> {"mentor", "student"}
    [] role = "student" -> {"student"}
    [] OTHER -> {}

hasRequiredRole(userRole, requiredRoles) ==
  IF userRole = Undefined \/ ROLE_HIERARCHY(userRole) = {} THEN FALSE
  ELSE \E role \in requiredRoles : role \in ROLE_HIERARCHY(userRole)

\* checkRoleMiddleware.js verifyRole(roles)(req, res, next)
verifyRole(requiredRoles, authHeader, user, t) ==
  LET token == IF authHeader.lead THEN NoTok ELSE authHeader.tok
      v == IF token = NoTok
           THEN JwtErr("JsonWebTokenError", "jwt must be provided")
           ELSE JwtVerify(token, JWT_SECRET,
                          [audience |-> config_JWT_AUDIENCE,
                           issuer |-> config_JWT_ISSUER,
                           maxAge |-> NoDuration], t)
  IN IF ~authHeader.present \/ authHeader.prefix # "Bearer "
       THEN Answered("401", "Authentication required", user)
     ELSE IF ~v.ok
       THEN IF v.name = "TokenExpiredError"
            THEN Answered("401", "Token expired", user)
            ELSE Answered("401", "Invalid token", user)
     ELSE IF token.role = Undefined
       THEN Answered("403", "Invalid token: no role specified", user)
     ELSE IF ~hasRequiredRole(token.role, requiredRoles)
       THEN Answered("403", "Insufficient privileges", user)
     ELSE Passed([id |-> token.id, username |-> token.username,
                  role |-> token.role])

(***************************************************************************)
(* Middleware stacks.  A stack element names what is called; "object" is a *)
(* value that is not a function.                                           *)
(***************************************************************************)
MwVerifyToken == [fn |-> "verifyToken", roles |-> {}]
MwRoleCheck(roles) == [fn |-> "roleCheck", roles |-> roles]
MwVerifyRole(roles) == [fn |-> "verifyRole", roles |-> roles]
MwHandler == [fn |-> "handler", roles |-> {}]
\* courseRoutes.js: import verifyToken from "../auth/authMiddleware.js" binds
\* the default export, the object {verifyToken, requireRoles}
courseRoutes_verifyToken == [fn |-> "object", roles |-> {}]

CallMiddleware(m, authHeader, user, t) ==
  CASE m.fn = "verifyToken" -> authMiddleware_verifyToken(authHeader, user, t)
    [] m.fn = "roleCheck" -> requireRoles_check(m.roles, user)
    [] m.fn = "verifyRole" -> verifyRole(m.roles, authHeader, user, t)
    [] m.fn = "handler" -> Answered("200", "", user)
    [] OTHER -> Answered("500", "middlewares[i] is not a function", user)

\* Express runs the handlers of a route in order; each runs only when the
\* one before it called next().  composeMiddleware does the same.
RECURSIVE composeMiddleware(_, _, _, _, _, _)
composeMiddleware(middlewares, i, authHeader, user, t, trace) ==
  IF i > Len(middlewares)
    THEN [status |-> "", error |-> "", user |-> user, trace |-> trace]
  ELSE
    LET r == CallMiddleware(middlewares[i], authHeader, user, t)
        called == IF middlewares[i].fn = "object" THEN trace
                  ELSE Append(trace, middlewares[i].fn)
    IN IF r.next
       THEN composeMiddleware(middlewares, i + 1, authHeader, r.user, t, called)
       ELSE [status |-> r.status, error |-> r.error, user |-> r.user,
             trace |-> called]

\* authMiddleware.requireRoles(roles), followed by the route handler
requireRoles(roles) == <<MwVerifyToken, MwRoleCheck(roles), MwHandler>>
\* authRoutes.js: router.get("/status", verifyToken, handler)
statusRoute == <<MwVerifyToken, MwHandler>>
\* courseRoutes.js
teacherAuthStack == <<courseRoutes_verifyToken, MwVerifyRole({"admin", "mentor"}), MwHandler>>
adminAuthStack == <<courseRoutes_verifyToken, MwVerifyRole({"admin"}), MwHandler>>

HttpResp(op, r, authHeader, roles) ==
  [Resp(op, r.status, r.error, authHeader.tok, TOKEN_TYPES.ACCESS, r.user,
        NoGrant, r.trace) EXCEPT !.roles = roles, !.header = authHeader]

Headers == {NoHeader, BasicHeader, Bearer(NoTok)} \cup {Bearer(tok) : tok \in Presentable}
RoleSets == {{"admin"}, {"mentor"}, {"student"}, {"admin", "mentor"}}

StatusCall(authHeader) ==
  /\ LET m == composeMiddleware(statusRoute, 1, authHeader, NoUser, now, <<>>)
     IN resp' = [HttpResp("status", m, authHeader, {})
                 EXCEPT !.body = IF m.status = "200" THEN m.user
                                 ELSE [success |-> FALSE, error |-> m.error]]
  /\ UNCHANGED <<now, ticks, grants, nextJti, revokedTokens, revokeDone, storeVars, oauthVars, raceVars, logoutVars, cacheVars>>

RequireRolesCall(roles, authHeader) ==
  /\ resp' = HttpResp("requireRoles",
                      composeMiddleware(requireRoles(roles), 1, authHeader, NoUser, now, <<>>),
                      authHeader, roles)
  /\ UNCHANGED <<now, ticks, grants, nextJti, revokedTokens, revokeDone, storeVars, oauthVars, raceVars, logoutVars, cacheVars>>

VerifyRoleCall(roles, authHeader) ==
  /\ resp' = HttpResp("verifyRole",
                      composeMiddleware(<<MwVerifyRole(roles), MwHandler>>, 1,
                                        authHeader, NoUser, now, <<>>),
                      authHeader, roles)
  /\ UNCHANGED <<now, ticks, grants, nextJti, revokedTokens, revokeDone, storeVars, oauthVars, raceVars, logoutVars, cacheVars>>

CourseRouteCall(stack, authHeader) ==
  /\ resp' = HttpResp("courseRoute",
                      composeMiddleware(stack, 1, authHeader, NoUser, now, <<>>),
                      authHeader, stack[2].roles)
  /\ UNCHANGED <<now, ticks, grants, nextJti, revokedTokens, revokeDone, storeVars, oauthVars, raceVars, logoutVars, cacheVars>>

(***************************************************************************)
(* models/User.js, the user controller                                     *)
(*                                                                         *)
(* A string that matters by its content is a record: a plaintext           *)
(* password is its characters, a bcrypt hash is the salt and the data it   *)
(* was computed from.                                                      *)
(***************************************************************************)
MaxUsers == 2
MaxSessions == 2
MaxAttempts == 6

Plain(chars) == [kind |-> "plain", chars |-> chars]
UpperCase == {"A"}
LowerCase == {"a", "b", "c", "d"}
Digits == {"1", "2", "3", "4"}
WordChars == UpperCase \cup LowerCase \cup Digits \cup {"_"}

\* bcrypt.hash(data, salt)
bcryptHash(data, salt) == [kind |-> "bcrypt", salt |-> salt, of |-> data]
\* bcrypt.compare(data, hash): hashes data with the salt of hash
bcryptCompare(data, hash) ==
  hash.kind = "bcrypt" /\ bcryptHash(data, hash.salt) = hash

isPasswordValid(password) ==
  LET c == password.chars
      minLength == 8
      hasUpperCase == \E i \in 1..Len(c) : c[i] \in UpperCase
      hasLowerCase == \E i \in 1..Len(c) : c[i] \in LowerCase
      hasNumbers == \E i \in 1..Len(c) : c[i] \in Digits
      hasNonalphas == \E i \in 1..Len(c) : c[i] \notin WordChars
  IN Len(c) >= minLength /\ hasUpperCase /\ hasLowerCase /\ hasNumbers
     /\ hasNonalphas

UserIds == <<"u1", "u2", "u3">>

\* new User({...}) with the schema defaults; the email setter lower-cases
NewUser(username, email, password, role) ==
  [_id |-> UserIds[Cardinality(users) + 1], username |-> username,
   email |-> ToLowerCase(email), password |-> password, role |-> role,
   githubToken |-> Undefined, active |-> TRUE,
   loginAttempts |-> [count |-> 0, lockedUntil |-> 0], __v |-> 0]

\* UserSchema.pre("save"): hashes the password whenever it is modified,
\* which it is on every new document
preSave(doc, isModifiedPassword, salt) ==
  IF ~isModifiedPassword THEN doc
  ELSE [doc EXCEPT !.password = bcryptHash(@, salt)]

\* a transform that forgets delete ret.password
toJSON_keepsPassword(doc) ==
  [f \in DOMAIN doc \ {"githubToken", "__v"} |-> doc[f]]

\* the toJSON transform of the schema
toJSON(doc) ==
  [f \in DOMAIN doc \ {"password", "githubToken", "__v"} |-> doc[f]]

\* password and githubToken are select: false
Selected(doc) == [f \in DOMAIN doc \ {"password", "githubToken"} |-> doc[f]]

FindByEmail(email) == {u \in users : u.email = ToLowerCase(email)}
FindById(id) == {u \in users : u._id = id}
\* a query whose email is compared as it was sent
ExistingUser_rawEmail(username, email) ==
  {u \in users : u.email = email \/ u.username = username}

\* User.findOne({ $or: [{ email }, { username }] }): the query is cast with
\* the schema, whose email path is lowercase: true
ExistingUser(username, email) ==
  {u \in users : u.email = ToLowerCase(email) \/ u.username = username}

\* the unique indexes on username and email reject the document
UniqueViolation(doc) ==
  \E u \in users : u.email = doc.email \/ u.username = doc.username

\* the request names a username or an email (whatever its case) in use
Taken(username, email) ==
  \E u \in users : u.username = username \/ u.email = ToLowerCase(email)

RefreshCookie(tok) ==
  [name |-> "refreshToken", value |-> tok, httpOnly |-> TRUE, sameSite |-> "lax"]

PublicUser(u) ==
  [id |-> u._id, username |-> u.username, email |-> u.email, role |-> u.role]

TokenUser(u) == [id |-> u._id, username |-> u.username, role |-> u.role]

Fail(op, status, error, r) ==
  [Resp(op, status, error, NoTok, "", NoUser, NoGrant, <<>>) EXCEPT !.req = r]

\* userController.js registerUser (the controller that issues tokens)
registerUser(username, email, password, salt, hookSalt) ==
  LET r == [username |-> username, email |-> email, password |-> password,
            dup |-> Taken(username, email)]
      existing == ExistingUser(username, email)
      hashedPassword == bcryptHash(password, salt)
      savedUser == preSave(NewUser(username, email, hashedPassword, "student"),
                           TRUE, hookSalt)
      tokens == generateTokens(TokenUser(savedUser), nextJti, now)
  IN IF username = Undefined \/ email = Undefined \/ password = NoString
       THEN /\ resp' = Fail("register", "400", "All fields are required", r)
            /\ UNCHANGED <<users, accepted, grants, nextJti>>
     ELSE IF ~isPasswordValid(password)
       THEN /\ resp' = Fail("register", "400",
                            "Password does not meet security requirements", r)
            /\ UNCHANGED <<users, accepted, grants, nextJti>>
     ELSE IF existing # {}
       THEN /\ resp' = Fail("register", "400",
                            IF \E u \in existing : u.email = email
                            THEN "Email already registered"
                            ELSE "Username already taken", r)
            /\ UNCHANGED <<users, accepted, grants, nextJti>>
     ELSE IF UniqueViolation(savedUser)
       THEN /\ resp' = Fail("register", "500",
                            "Registration failed. Please try again.", r)
            /\ UNCHANGED <<users, accepted, grants, nextJti>>
     ELSE /\ Cardinality(users) < MaxUsers
          /\ Cardinality(grants) < MaxSessions
          /\ users' = users \cup {savedUser}
          /\ accepted' = accepted \cup
               {[email |-> savedUser.email, password |-> password]}
          /\ grants' = grants \cup {tokens}
          /\ nextJti' = nextJti + 2
          /\ resp' = [Resp("register", "201", "", NoTok, "", NoUser, tokens, <<>>)
                      EXCEPT !.req = r, !.body = PublicUser(savedUser),
                             !.cookies = {RefreshCookie(tokens.refreshToken)}]

RegisterUser(username, email, password, salt, hookSalt) ==
  /\ registerUser(username, email, password, salt, hookSalt)
  /\ UNCHANGED <<now, ticks, revokedTokens, revokeDone, failedStreak, streakAt,
                 oauthVars, raceVars, logoutVars, cacheVars>>

\* controllers/userController.js registerUser (09-10-2024): no validation,
\* no tokens, answers with the saved document.  bcrypt.hash throws on a
\* missing password and save() on a missing required path: both are
\* answered 500.
LegacyRegisterUser(username, email, password, salt, hookSalt) ==
  LET r == [username |-> username, email |-> email, password |-> password,
            dup |-> Taken(username, email)]
      hashedPassword == bcryptHash(password, salt)
      savedUser == preSave(NewUser(username, email, hashedPassword, "student"),
                           TRUE, hookSalt)
  IN /\ IF username = Undefined \/ email = Undefined \/ password = NoString
          THEN /\ resp' = Fail("register", "500",
                               "Failed to register user. Please try again.", r)
               /\ UNCHANGED <<users, accepted>>
        ELSE IF UniqueViolation(savedUser)
          THEN /\ resp' = Fail("register", "400",
                               "Username or email already exists", r)
               /\ UNCHANGED <<users, accepted>>
        ELSE /\ Cardinality(users) < MaxUsers
             /\ users' = users \cup {savedUser}
             /\ accepted' = accepted \cup
                  {[email |-> savedUser.email, password |-> password]}
             /\ resp' = [Resp("register", "201", "", NoTok, "", NoUser, NoGrant, <<>>)
                         EXCEPT !.req = r, !.body = toJSON(savedUser)]
     /\ UNCHANGED <<now, ticks, grants, nextJti, revokedTokens, revokeDone,
                    failedStreak, streakAt, oauthVars, raceVars, logoutVars, cacheVars>>

\* userController.js loginUser
LoginUser(email, password) ==
  LET r == [username |-> Undefined, email |-> email, password |-> password,
            dup |-> FALSE]
      e == ToLowerCase(email)
      found == FindByEmail(email)
      user == CHOOSE u \in found : TRUE
      tokens == generateTokens(TokenUser(user), nextJti, now)
      failed == found = {} \/ ~bcryptCompare(password, user.password)
      before == failedStreak[e]
  IN /\ before < MaxAttempts
     /\ IF password = NoString
          THEN /\ resp' = Fail("login", "400", "Email and password are required", r)
               /\ UNCHANGED <<grants, nextJti, failedStreak, streakAt>>
        ELSE IF failed
          THEN /\ resp' = [Fail("login", "401", "Invalid credentials", r)
                           EXCEPT !.streak = before]
               /\ failedStreak' = IF found = {} THEN failedStreak
                                  ELSE [failedStreak EXCEPT ![e] = before + 1]
               /\ streakAt' = IF found # {} /\ before + 1 = 5
                              THEN [streakAt EXCEPT ![e] = now] ELSE streakAt
               /\ UNCHANGED <<grants, nextJti>>
        ELSE /\ Cardinality(grants) < MaxSessions
             /\ grants' = grants \cup {tokens}
             /\ nextJti' = nextJti + 2
             /\ failedStreak' = [failedStreak EXCEPT ![e] = 0]
             /\ UNCHANGED streakAt
             /\ resp' = [Resp("login", "200", "", NoTok, "", NoUser, tokens, <<>>)
                         EXCEPT !.req = r, !.body = PublicUser(user),
                                !.streak = before,
                                !.cookies = {RefreshCookie(tokens.refreshToken)}]
     /\ UNCHANGED <<now, ticks, revokedTokens, revokeDone, users, accepted,
                    oauthVars, raceVars, logoutVars, cacheVars>>

\* controllers/userController.js loginUser (09-10-2024).  User.findOne is
\* called without .select("+password"), and the schema marks password
\* select: false: the document has no password and bcrypt.compare rejects
\* its undefined hash, which the catch answers 500.  The token of a
\* successful login, signed without jti, type, audience or issuer, is only
\* carried in the body.
LegacyLoginUser(email, password) ==
  LET r == [username |-> Undefined, email |-> email, password |-> password,
            dup |-> FALSE]
      found == FindByEmail(email)
      user == Selected(CHOOSE u \in found : TRUE)
  IN /\ resp' =
          IF found = {}
            THEN Fail("legacyLogin", "400", "User not found", r)
          ELSE IF password = NoString \/ "password" \notin DOMAIN user
            THEN Fail("legacyLogin", "500",
                      "An error occurred during login. Please try again.", r)
          ELSE IF ~bcryptCompare(password, user.password)
            THEN Fail("legacyLogin", "400", "Incorrect password", r)
          ELSE [Resp("legacyLogin", "200", "", NoTok, "", NoUser, NoGrant, <<>>)
                EXCEPT !.req = r, !.body = [message |-> "Login successful"]]
     /\ UNCHANGED <<now, ticks, grants, nextJti, revokedTokens, revokeDone,
                    storeVars, oauthVars, raceVars, logoutVars, cacheVars>>

\* the active flag of a stored user is set to false (soft-disable); no
\* request is being answered
Deactivate(id) ==
  /\ \E u \in users : u._id = id /\ u.active
  /\ users' = {IF u._id = id THEN [u EXCEPT !.active = FALSE] ELSE u : u \in users}
  /\ resp' = NoResp
  /\ UNCHANGED <<now, ticks, grants, nextJti, revokedTokens, revokeDone,
                 accepted, failedStreak, streakAt, oauthVars, raceVars,
                 logoutVars, cacheVars>>

\* userController.js refreshToken: the cookie is checked with validateToken
RefreshTokenEndpoint(cookie) ==
  LET r == validateToken(cookie, now)
      found == FindById(cookie.id)
      user == CHOOSE u \in found : TRUE
      tokens == generateTokens(TokenUser(user), nextJti, now)
      answer(status, error) ==
        Resp("refreshToken", status, error, cookie, TOKEN_TYPES.REFRESH,
             NoUser, NoGrant, <<>>)
  IN /\ IF cookie = NoTok
          THEN /\ resp' = answer("401", "Refresh token not found")
               /\ UNCHANGED <<grants, nextJti>>
        ELSE IF ~r.ok
          THEN /\ resp' = answer("401", "Token refresh failed")
               /\ UNCHANGED <<grants, nextJti>>
        ELSE IF found = {}
          THEN /\ resp' = answer("404", "User not found")
               /\ UNCHANGED <<grants, nextJti>>
        ELSE /\ Cardinality(grants) < MaxSessions
             /\ grants' = grants \cup {tokens}
             /\ nextJti' = nextJti + 2
             /\ resp' = [Resp("refreshToken", "200", "", cookie,
                              TOKEN_TYPES.REFRESH, NoUser, tokens, <<>>)
                         EXCEPT !.cookies = {RefreshCookie(tokens.refreshToken)}]
     /\ UNCHANGED <<now, ticks, revokedTokens, revokeDone, storeVars, oauthVars, raceVars, logoutVars, cacheVars>>

\* userController.js getProfile, behind the Auth Middleware
GetProfile(authHeader) ==
  LET m == composeMiddleware(<<MwVerifyToken>>, 1, authHeader, NoUser, now, <<>>)
      found == FindById(m.user.id)
      user == CHOOSE u \in found : TRUE
  IN /\ resp' =
          IF m.status # "" THEN HttpResp("profile", m, authHeader, {})
          ELSE IF found = {}
            THEN Resp("profile", "404", "User not found", authHeader.tok,
                      TOKEN_TYPES.ACCESS, m.user, NoGrant, m.trace)
          ELSE [Resp("profile", "200", "", authHeader.tok, TOKEN_TYPES.ACCESS,
                     m.user, NoGrant, Append(m.trace, "handler"))
                EXCEPT !.body = toJSON(Selected(user))]
     /\ UNCHANGED <<now, ticks, grants, nextJti, revokedTokens, revokeDone,
                    storeVars, oauthVars, raceVars, logoutVars, cacheVars>>

\* req.session.destroy(callback): the store deletes the session document,
\* if there is one, and calls back without an error
session_destroy(sess) == [err |-> FALSE, session |-> NoSession]

\* res.clearCookie(name, options)
ClearedCookie(name) ==
  [name |-> name, value |-> NoTok, httpOnly |-> TRUE, sameSite |-> "lax"]

\* authRoutes.js: router.post("/logout", verifyToken, handler)
Logout(authHeader) ==
  LET m == composeMiddleware(<<MwVerifyToken>>, 1, authHeader, NoUser, now, <<>>)
      d == session_destroy(session)
  IN /\ IF m.status # ""
          THEN /\ resp' = HttpResp("logout", m, authHeader, {})
               /\ UNCHANGED <<session, loggedOut>>
        ELSE IF d.err
          THEN /\ resp' = [Resp("logout", "500", "Logout failed", authHeader.tok,
                                 TOKEN_TYPES.ACCESS, m.user, NoGrant,
                                 Append(m.trace, "handler"))
                           EXCEPT !.header = authHeader]
               /\ UNCHANGED <<session, loggedOut>>
        ELSE /\ session' = d.session
             /\ loggedOut' = loggedOut \cup {authHeader.tok}
             /\ resp' = [Resp("logout", "200", "", authHeader.tok,
                               TOKEN_TYPES.ACCESS, m.user, NoGrant,
                               Append(m.trace, "handler"))
                         EXCEPT !.header = authHeader,
                                !.body = [message |-> "Logged out successfully"],
                                !.cookies = {ClearedCookie(n) :
                                   n \in {"code_tutor.sid", "refreshToken",
                                          "connect.sid"}}]
     /\ UNCHANGED <<now, ticks, grants, nextJti, revokedTokens, revokeDone,
                    storeVars, nextState, exchangeCalls, mounted, consumed,
                    startedAt, raceVars, logoutCall, cacheVars>>

\* the two authRoutes.js of the repository, by their date
AuthRoutes == {"2024-11-08", "2024-11-12"}

\* POST /logout up to the call of req.session.destroy(callback); routes is
\* the authRoutes.js the server mounts, the same for every request
LogoutRequest(authHeader, routes) ==
  LET m == composeMiddleware(<<MwVerifyToken>>, 1, authHeader, NoUser, now, <<>>)
  IN /\ logoutCall.pc \in {"idle", "answered"}
     /\ logoutCall.routes \in {"", routes}
     /\ IF m.status # ""
          THEN /\ resp' = HttpResp("logout", m, authHeader, {})
               /\ logoutCall' = [logoutCall EXCEPT !.routes = routes]
          ELSE /\ resp' = NoResp
               /\ logoutCall' = [pc |-> "destroying", routes |-> routes,
                                 header |-> authHeader, responses |-> 0]
     /\ UNCHANGED <<now, ticks, grants, nextJti, revokedTokens, revokeDone,
                    storeVars, oauthVars, raceVars, loggedOut, cacheVars>>

\* the callback of req.session.destroy, called with the store's error or
\* without one.  2024-11-12 answers 500 on an error; 2024-11-08 throws
\* inside the callback, after the route's try block has been left: the
\* exception is uncaught, nothing is sent and the process shuts down.
SessionDestroyed(err) ==
  LET h == logoutCall.header
      answer(status, error) ==
        [Resp("logout", status, error, h.tok, TOKEN_TYPES.ACCESS, NoUser,
              NoGrant, <<"verifyToken", "handler">>) EXCEPT !.header = h]
  IN /\ logoutCall.pc = "destroying"
     /\ IF ~err
          THEN /\ session' = NoSession
               /\ loggedOut' = loggedOut \cup {h.tok}
               /\ logoutCall' = [logoutCall EXCEPT !.pc = "answered",
                                                   !.responses = @ + 1]
               /\ resp' = [answer("200", "")
                           EXCEPT !.body = [message |-> "Logged out successfully"],
                                  !.cookies = {ClearedCookie(n) :
                                     n \in {"code_tutor.sid", "refreshToken",
                                            "connect.sid"}}]
        ELSE IF logoutCall.routes = "2024-11-12"
          THEN /\ logoutCall' = [logoutCall EXCEPT !.pc = "answered",
                                                   !.responses = @ + 1]
               /\ resp' = answer("500", "Logout failed")
               /\ UNCHANGED <<session, loggedOut>>
        ELSE /\ logoutCall' = [logoutCall EXCEPT !.pc = "uncaughtException"]
             /\ resp' = NoResp
             /\ UNCHANGED <<session, loggedOut>>
     /\ UNCHANGED <<now, ticks, grants, nextJti, revokedTokens, revokeDone,
                    storeVars, nextState, exchangeCalls, mounted, consumed,
                    startedAt, raceVars, cacheVars>>

\* the other variables of a step on the Octokit cache
CacheFrame ==
  UNCHANGED <<ticks, grants, nextJti, revokedTokens, revokeDone, resp,
              storeVars, oauthVars, raceVars, logoutVars>>

\* d seconds pass; the runtime runs a timer when it is due, so the clock
\* does not pass a pending timer
CacheTick(d) ==
  /\ now + d <= CacheHorizon
  /\ \A x \in octokitCache.timers : now + d <= x.due
  /\ now' = now + d
  /\ UNCHANGED cacheVars
  /\ CacheFrame

\* octokitCache.set(key, value)
CacheSet(key, value) ==
  /\ octokitCache.nextTimer <= MaxTimers
  /\ octokitCache' = set(octokitCache, key, value, now)
  /\ lastSet' = [lastSet EXCEPT ![key] =
                   [at |-> now,
                    again |-> MapHas(octokitCache.entries, key) /\ @.at < now]]
  /\ UNCHANGED now
  /\ CacheFrame

\* octokitCache.delete(key)
CacheDelete(key) ==
  /\ octokitCache' = delete(octokitCache, key)
  /\ UNCHANGED <<now, lastSet>>
  /\ CacheFrame

\* octokitCache.clear()
CacheClear ==
  /\ octokitCache' = clear(octokitCache)
  /\ UNCHANGED <<now, lastSet>>
  /\ CacheFrame

\* getOctokit(accessToken): the cached instance, or a new one that is cached
GetOctokit(accessToken) ==
  /\ IF MapHas(octokitCache.entries, accessToken)
       THEN UNCHANGED cacheVars
       ELSE /\ octokitCache.nextTimer <= MaxTimers
            /\ octokitCache' = set(octokitCache, accessToken, "octokit1", now)
            /\ lastSet' = [lastSet EXCEPT ![accessToken] =
                             [at |-> now, again |-> FALSE]]
  /\ UNCHANGED now
  /\ CacheFrame

\* a pending timer is due and the runtime runs its callback
TimerFires(timer) ==
  /\ timer \in octokitCache.timers
  /\ now >= timer.due
  /\ octokitCache' = timeout(octokitCache, timer)
  /\ UNCHANGED <<now, lastSet>>
  /\ CacheFrame

Usernames == {"alice", "bob"}
Salts == {"salt1", "salt2"}
Abcd1234 == <<"A", "b", "c", "d", "1", "2", "3", "4">>
Passwords ==
  {Plain(Append(Abcd1234, "!")), Plain(Append(Abcd1234, "?")),
   Plain(Append(Abcd1234, "_")), NoString}

\* passwords the strength check refuses: no character outside the letters
\* and digits, and fewer than eight characters
WeakPasswords == {Plain(Abcd1234), Plain(<<"A", "b", "1", "!">>)}

(***************************************************************************)
(* GitHub OAuth: githubAuthService.js, githubService.js, githubRoutes.js   *)
(*                                                                         *)
(* Two githubRoutes.js exist: "metrics" keeps its own state and start time *)
(* in the session and validates them before passport runs; "simplified"    *)
(* (2024-11-12) calls passport directly.  Both strategies are configured   *)
(* with state: true, pkce: true, so passport-oauth2 keeps a handle of its  *)
(* own in the session and verifies it before the token exchange.           *)
(***************************************************************************)
MaxStarts == 2
\* const AUTH_TIMEOUT = 300000, milliseconds
AUTH_TIMEOUT == 300000
OAuthTickSteps == {AUTH_TIMEOUT \div 1000, AUTH_TIMEOUT \div 1000 + 1}

GitHubProfile == [id |-> "gh1", username |-> "octocat"]

\* state: true -- the store puts a fresh handle in the session
stateStore_store(sess, handle) == [sess EXCEPT !.oauth2 = handle]

\* a store that verifies nothing (state: false)
stateStore_verify_unchecked(sess, providedState) ==
  [ok |-> TRUE, info |-> "", session |-> sess]

\* state: true -- the store removes the handle and compares it with the
\* state of the query
stateStore_verify(sess, providedState) ==
  IF sess.oauth2 = 0
    THEN [ok |-> FALSE, info |-> "Unable to verify authorization request state.",
          session |-> sess]
  ELSE IF sess.oauth2 # providedState
    THEN [ok |-> FALSE, info |-> "Invalid authorization request state.",
          session |-> [sess EXCEPT !.oauth2 = 0]]
  ELSE [ok |-> TRUE, info |-> "", session |-> [sess EXCEPT !.oauth2 = 0]]

\* githubService.js: the strategy's verify callback
githubService_verify(sess, query, provider) ==
  IF ~provider.primaryEmail
    THEN [ok |-> FALSE, error |-> "No primary email found in GitHub account",
          session |-> sess, user |-> NoUser]
  ELSE [ok |-> TRUE, error |-> "",
        session |-> [sess EXCEPT !.githubState = query.state],
        user |-> [id |-> GitHubProfile.id, username |-> GitHubProfile.username,
                  role |-> "user"]]

\* githubAuthService.js handleAuthCallback
handleAuthCallback(sess, query, provider) ==
  [ok |-> TRUE, error |-> "",
   session |-> [sess EXCEPT !.githubState = query.state],
   user |-> [id |-> GitHubProfile.id, username |-> GitHubProfile.username,
             role |-> "user"]]

\* passport.authenticate("github", options)(req, res, next).  stringState
\* is options.state when it is a string, else 0; handle is the value the
\* state store would draw.
passport_authenticate(sess, query, stringState, handle, provider, strategy) ==
  IF ~query.code
    THEN \* no code: the request starts an authorization
         [outcome |-> "authorize", error |-> "", exchanged |-> 0,
          state |-> IF stringState # 0 THEN stringState ELSE handle,
          session |-> IF stringState # 0 THEN sess
                      ELSE stateStore_store(sess, handle),
          user |-> NoUser]
  ELSE
    LET v == stateStore_verify(sess, query.state)
        c == IF strategy = "githubService"
             THEN githubService_verify(v.session, query, provider)
             ELSE handleAuthCallback(v.session, query, provider)
    IN IF ~v.ok
         THEN [outcome |-> "fail", error |-> v.info, exchanged |-> 0,
               state |-> 0, session |-> v.session, user |-> NoUser]
       ELSE IF ~provider.codeValid
         THEN [outcome |-> "error", error |-> "Failed to obtain access token",
               exchanged |-> 1, state |-> 0, session |-> v.session,
               user |-> NoUser]
       ELSE IF ~c.ok
         THEN [outcome |-> "error", error |-> c.error, exchanged |-> 1,
               state |-> 0, session |-> c.session, user |-> NoUser]
       ELSE [outcome |-> "success", error |-> "", exchanged |-> 1, state |-> 0,
             session |-> [c.session EXCEPT !.user = c.user.id],
             user |-> c.user]

OAuthResp(op, status, error, query, stored, exchanged, location) ==
  [Resp(op, status, error, NoTok, "", NoUser, NoGrant, <<>>)
   EXCEPT !.oauth = [state |-> query.state, stored |-> stored,
                     code |-> query.code, exchanged |-> exchanged,
                     location |-> location, replay |-> query.state \in consumed,
                     params |-> <<>>, primaryEmail |-> TRUE]]

\* what passport answers when the strategy fails or errors
PassportResp(op, a, query, stored, failureRedirect) ==
  CASE a.outcome = "authorize" ->
         OAuthResp(op, "302", "", [query EXCEPT !.state = a.state], stored, 0,
                   "github")
    [] a.outcome = "fail" ->
         OAuthResp(op, "302", failureRedirect, query, stored, 0, "/login")
    [] OTHER ->
         OAuthResp(op, "500", a.error, query, stored, a.exchanged, "")

NoQuery == [state |-> 0, code |-> FALSE]

\* a builder that appends no parameter
buildRedirectUrl_bare(params) == <<>>

\* buildRedirectUrl(path, params): the search parameters appended, those
\* with a value
buildRedirectUrl(params) ==
  [k \in {x \in DOMAIN params : params[x] # NoTok} |-> params[k]]

\* githubRoutes.js ("metrics"): router.get("/")
StartMetrics ==
  /\ mounted = "metrics"
  /\ nextState <= MaxStarts
  /\ LET state == nextState
         sess == [session EXCEPT !.githubState = state, !.authStartTime = now]
         a == passport_authenticate(sess, NoQuery, state, 0, [codeValid |-> TRUE,
                primaryEmail |-> TRUE], "githubService")
     IN /\ session' = a.session
        /\ resp' = PassportResp("start", a, NoQuery, session.githubState,
                                "github_auth_failed")
  /\ nextState' = nextState + 1
  /\ startedAt' = now
  /\ UNCHANGED <<now, ticks, grants, nextJti, revokedTokens, revokeDone,
                 storeVars, exchangeCalls, mounted, consumed, raceVars, logoutVars, cacheVars>>

\* githubRoutes.js ("metrics"): router.get("/callback")
CallbackMetrics(query, provider) ==
  /\ mounted = "metrics"
  /\ nextState <= MaxStarts + 1
  /\ LET storedState == session.githubState
         authDuration == (now - session.authStartTime) * 1000
         a == passport_authenticate(session, query, 0, nextState, provider,
                                    "githubService")
     IN IF query.state = 0 \/ storedState = 0 \/ query.state # storedState
           \/ authDuration > AUTH_TIMEOUT
          THEN /\ resp' = [OAuthResp("callback", "302", "validation_failed",
                                     query, storedState, 0, "/login")
                           EXCEPT !.oauth.primaryEmail = provider.primaryEmail]
               /\ UNCHANGED <<session, nextState, exchangeCalls>>
        ELSE /\ session' = a.session
             /\ exchangeCalls' = exchangeCalls + a.exchanged
             /\ nextState' = IF a.outcome = "authorize" THEN nextState + 1
                             ELSE nextState
             /\ resp' =
                  IF a.outcome = "success"
                    THEN [OAuthResp("callback", "302", "", query, storedState,
                                    a.exchanged, "/playground")
                          EXCEPT !.user = a.user,
                                 !.oauth.params = [auth |-> "success"],
                                 !.oauth.primaryEmail = provider.primaryEmail]
                  ELSE [PassportResp("callback", a, query, storedState,
                                     "github_auth_failed")
                        EXCEPT !.oauth.primaryEmail = provider.primaryEmail]
  /\ consumed' = IF query.state # 0 /\ query.state = session.githubState
                 THEN consumed \cup {query.state} ELSE consumed
  /\ UNCHANGED <<now, ticks, grants, nextJti, revokedTokens, revokeDone,
                 storeVars, mounted, startedAt, raceVars, logoutVars, cacheVars>>

\* githubRoutes.js ("simplified"): router.get("/")
StartSimplified ==
  /\ mounted = "simplified"
  /\ nextState <= MaxStarts
  /\ LET sess == [session EXCEPT !.returnTo = "/playground"]
         a == passport_authenticate(sess, NoQuery, 0, nextState, [codeValid |-> TRUE,
                primaryEmail |-> TRUE], "githubAuthService")
     IN /\ session' = a.session
        /\ resp' = PassportResp("start", a, NoQuery, session.oauth2, "")
  /\ nextState' = nextState + 1
  /\ startedAt' = now
  /\ UNCHANGED <<now, ticks, grants, nextJti, revokedTokens, revokeDone,
                 storeVars, exchangeCalls, mounted, consumed, raceVars, logoutVars, cacheVars>>

\* githubRoutes.js ("simplified"): router.get("/callback")
CallbackSimplified(query, provider) ==
  /\ mounted = "simplified"
  /\ nextState <= MaxStarts + 1
  /\ LET stored == session.oauth2
         a == passport_authenticate(session, query, 0, nextState, provider,
                                    "githubAuthService")
         tokens == generateTokens(a.user, nextJti, now)
     IN /\ session' = a.session
        /\ exchangeCalls' = exchangeCalls + a.exchanged
        /\ nextState' = IF a.outcome = "authorize" THEN nextState + 1
                        ELSE nextState
        /\ IF a.outcome = "success"
             THEN /\ Cardinality(grants) < MaxSessions
                  /\ grants' = grants \cup {tokens}
                  /\ nextJti' = nextJti + 2
                  /\ resp' =
                       [OAuthResp("callback", "302", "", query, stored,
                                  a.exchanged,
                                  IF session.returnTo = "" THEN "/playground"
                                  ELSE session.returnTo)
                        EXCEPT !.user = a.user, !.grant = tokens,
                               !.oauth.primaryEmail = provider.primaryEmail,
                               !.oauth.params =
                                 buildRedirectUrl([access_token |-> tokens.accessToken]),
                               !.cookies = {[name |-> "accessToken",
                                             value |-> tokens.accessToken,
                                             httpOnly |-> TRUE,
                                             sameSite |-> "lax"]}]
           ELSE /\ resp' = [PassportResp("callback", a, query, stored, "")
                            EXCEPT !.oauth.primaryEmail = provider.primaryEmail]
                /\ UNCHANGED <<grants, nextJti>>
  /\ consumed' = IF query.state # 0 /\ query.state = session.oauth2
                 THEN consumed \cup {query.state} ELSE consumed
  /\ startedAt' = IF ~query.code THEN now ELSE startedAt
  /\ UNCHANGED <<now, ticks, revokedTokens, revokeDone, storeVars, mounted,
                 raceVars, logoutVars, cacheVars>>

\* what a callback request can carry: any state drawn so far, one not drawn
\* yet, or none; a code or none
Queries == [state : 0 .. MaxStarts + 2, code : BOOLEAN]
Providers == [codeValid : BOOLEAN, primaryEmail : BOOLEAN]

(***************************************************************************)
(* models/User.js handleFailedLogin, called by requests that run at the    *)
(* same time.  Each request holds the document it loaded; save() writes    *)
(* the paths the request modified.                                         *)
(***************************************************************************)
RECURSIVE SumDone(_)
SumDone(rs) ==
  IF rs = {} THEN 0
  ELSE LET r == CHOOSE x \in rs : TRUE
       IN recording[r].done + SumDone(rs \ {r})

InFlight == {r \in Requests : recording[r].pc = "loaded"}

\* User.findOne(...): the request gets its own copy of the document
LoadUser(r) ==
  /\ recording[r].pc = "idle"
  /\ SumDone(Requests) + Cardinality(InFlight) < MaxAttempts
  /\ recording' = [recording EXCEPT ![r] =
                     [pc |-> "loaded", count |-> loginAttempts.count,
                      lockedUntil |-> loginAttempts.lockedUntil,
                      done |-> @.done]]
  /\ UNCHANGED <<now, ticks, grants, nextJti, revokedTokens, revokeDone, resp,
                 storeVars, oauthVars, loginAttempts, failures, registering,
                 logoutVars, cacheVars>>

\* user.handleFailedLogin(): count += 1 on the copy, lockedUntil once the
\* count is 5, then save()
HandleFailedLogin(r) ==
  /\ recording[r].pc = "loaded"
  /\ LET count == recording[r].count + 1
         lockedUntil == IF count >= 5 THEN now + LockDuration
                        ELSE recording[r].lockedUntil
     IN loginAttempts' = [count |-> count, lockedUntil |-> lockedUntil]
  /\ recording' = [recording EXCEPT ![r] = NotRecording(@.done + 1)]
  /\ UNCHANGED <<now, ticks, grants, nextJti, revokedTokens, revokeDone, resp,
                 storeVars, oauthVars, failures, registering, logoutVars, cacheVars>>

(***************************************************************************)
(* registerUser called by requests that run at the same time: a request    *)
(* may be suspended at each await, here between the look-up and the save.  *)
(***************************************************************************)
\* registerUser up to `await User.findOne(...)`
RegisterLookup(r, username, email, password, salt, hookSalt) ==
  LET req == [username |-> username, email |-> email, password |-> password,
              dup |-> Taken(username, email)]
      existing == ExistingUser(username, email)
      status == IF password = NoString \/ ~isPasswordValid(password)
                   \/ existing # {}
                THEN "400" ELSE ""
      error == IF password = NoString THEN "All fields are required"
               ELSE IF ~isPasswordValid(password)
                 THEN "Password does not meet security requirements"
               ELSE IF \E u \in existing : u.email = email
                 THEN "Email already registered"
               ELSE "Username already taken"
  IN /\ registering[r].pc = "idle"
     /\ registering' = [registering EXCEPT ![r] =
          [pc |-> IF status = "" THEN "found" ELSE "done", status |-> status,
           username |-> username, email |-> email, password |-> password,
           salt |-> salt, hookSalt |-> hookSalt]]
     /\ resp' = IF status = "" THEN resp ELSE Fail("register", status, error, req)
     /\ UNCHANGED <<now, ticks, grants, nextJti, revokedTokens, revokeDone,
                    storeVars, oauthVars, loginAttempts, recording, failures,
                    logoutVars, cacheVars>>

\* registerUser from bcrypt.hash to the response: save(), tokens, cookie;
\* the catch answers an error of save() with 500
RegisterSave(r) ==
  LET q == registering[r]
      req == [username |-> q.username, email |-> q.email,
              password |-> q.password, dup |-> Taken(q.username, q.email)]
      savedUser == preSave(NewUser(q.username, q.email,
                                   bcryptHash(q.password, q.salt), "student"),
                           TRUE, q.hookSalt)
      tokens == generateTokens(TokenUser(savedUser), nextJti, now)
  IN /\ q.pc = "found"
     /\ IF UniqueViolation(savedUser)
          THEN /\ resp' = Fail("register", "500",
                               "Registration failed. Please try again.", req)
               /\ registering' = [registering EXCEPT ![r].pc = "done",
                                                     ![r].status = "500"]
               /\ UNCHANGED <<users, accepted, grants, nextJti>>
        ELSE /\ users' = users \cup {savedUser}
             /\ accepted' = accepted \cup
                  {[email |-> savedUser.email, password |-> q.password]}
             /\ grants' = grants \cup {tokens}
             /\ nextJti' = nextJti + 2
             /\ registering' = [registering EXCEPT ![r].pc = "done",
                                                   ![r].status = "201"]
             /\ resp' = [Resp("register", "201", "", NoTok, "", NoUser, tokens, <<>>)
                         EXCEPT !.req = req, !.body = PublicUser(savedUser),
                                !.cookies = {RefreshCookie(tokens.refreshToken)}]
     /\ UNCHANGED <<now, ticks, revokedTokens, revokeDone, failedStreak,
                    streakAt, oauthVars, loginAttempts, recording, failures,
                    logoutVars, cacheVars>>

\* handleFailedLogin that leaves a lockout expiry already set as it is
handleFailedLogin_lockOnce(attempts, t) ==
  LET count == attempts.count + 1
  IN [count |-> count,
      lockedUntil |-> IF count >= 5 /\ attempts.lockedUntil = 0
                      THEN t + LockDuration ELSE attempts.lockedUntil]

\* UserSchema.methods.handleFailedLogin on this.loginAttempts, at time t;
\* lockedUntil 0 is "not set"
handleFailedLogin(attempts, t) ==
  LET count == attempts.count + 1
  IN [count |-> count,
      lockedUntil |-> IF count >= 5 THEN t + LockDuration
                      ELSE attempts.lockedUntil]

\* UserSchema.methods.resetLoginAttempts
resetLoginAttempts(attempts) == [count |-> 0, lockedUntil |-> 0]

\* one request after the other calls a method on the user and saves
HandleFailedLoginCall ==
  /\ failures.sinceReset < MaxAttempts
  /\ loginAttempts' = handleFailedLogin(loginAttempts, now)
  /\ failures' = [sinceReset |-> failures.sinceReset + 1, lastAt |-> now]
  /\ resp' = Resp("handleFailedLogin", "returned", "", NoTok, "", NoUser,
                  NoGrant, <<>>)
  /\ UNCHANGED <<now, ticks, grants, nextJti, revokedTokens, revokeDone,
                 storeVars, oauthVars, recording, registering, logoutVars, cacheVars>>

ResetLoginAttemptsCall ==
  /\ loginAttempts' = resetLoginAttempts(loginAttempts)
  /\ failures' = [sinceReset |-> 0, lastAt |-> failures.lastAt]
  /\ resp' = Resp("resetLoginAttempts", "returned", "", NoTok, "", NoUser,
                  NoGrant, <<>>)
  /\ UNCHANGED <<now, ticks, grants, nextJti, revokedTokens, revokeDone,
                 storeVars, oauthVars, recording, registering, logoutVars, cacheVars>>

(***************************************************************************)
(* Properties                                                              *)
(***************************************************************************)
Rejected == resp.status \notin {"200", "201", "returned"}

\* C1: once revokeToken(t) has succeeded, every later verifyToken(t) made
\* before t expires fails, and fails with the revoked error when t is
\* verified as its own type; sweeps and other revocations change nothing.
C1_RevokedStaysRevoked ==
  (resp.op = "verifyToken" /\ resp.tok \in revokeDone /\ now < resp.tok.exp)
    => /\ resp.status = "thrown"
       /\ resp.type = resp.tok.type => resp.error = "Token has been revoked"

C1_Witness ==
  /\ resp.op = "verifyToken"
  /\ resp.tok \in revokeDone
  /\ resp.type = resp.tok.type
  /\ now < resp.tok.exp
  /\ resp.error = "Token has been revoked"
  /\ Cardinality(revokeDone) > 1

\* C2: a token whose id is in the revoked set is rejected by the Auth
\* Middleware, by verifyRole and by validateToken.
C2_RevokedNeverValidates ==
  (/\ resp.op \in {"status", "verifyRole", "validateToken"}
   /\ resp.tok.kind = "jwt"
   /\ resp.tok.jti \in revokedTokens)
    => Rejected

\* C4: an access token from generateTokens verifies at every time before
\* the returned expiresIn has elapsed since it was issued and is answered
\* Expired at every time after it.
C4_ExpiresInIsLifetime ==
  \A g \in Generated :
    (resp.op = "status" /\ resp.tok = g.accessToken)
      => /\ now < g.accessToken.iat + g.expiresIn => resp.status = "200"
         /\ now > g.accessToken.iat + g.expiresIn
              => resp.error = AUTH_ERRORS.EXPIRED

\* what the Auth Middleware has to find before a request may go on: a
\* bearer token, signed with the access secret, unexpired, with an id and
\* a username
TokenVerifies(tok) ==
  /\ tok.kind = "jwt"
  /\ tok.key = JWT_SECRET
  /\ now < tok.exp
  /\ tok.id # Undefined /\ tok.username # Undefined

Position(trace, name) ==
  IF \E i \in 1..Len(trace) : trace[i] = name
  THEN CHOOSE i \in 1..Len(trace) : trace[i] = name
  ELSE 0

\* C8: on a protected route the role check and the route handler run only
\* after the token verification, and only when it succeeded; a request
\* whose token is missing, malformed, expired or invalid is rejected.
C8_VerifyBeforeRole ==
  resp.op \in {"requireRoles", "courseRoute", "status"}
    => /\ \A stage \in {"roleCheck", "verifyRole", "handler"} :
            Position(resp.trace, stage) > 0
              => /\ Position(resp.trace, "verifyToken") > 0
                 /\ Position(resp.trace, "verifyToken") < Position(resp.trace, stage)
                 /\ TokenVerifies(resp.tok)
       /\ ~TokenVerifies(resp.tok)
            => /\ Rejected
               /\ resp.status \in {"401", "500"}

C8_Witness ==
  /\ resp.op = "requireRoles"
  /\ resp.tok.kind = "jwt" /\ resp.tok.key = JWT_SECRET /\ now >= resp.tok.exp
  /\ resp.trace = <<"verifyToken">>
  /\ resp.status = "401"

\* the rights the role hierarchy gives a role
Granted(role) ==
  CASE role = "admin" -> {"admin", "mentor", "student"}
    [] role = "mentor" -> {"mentor", "student"}
    [] role = "student" -> {"student"}
    [] OTHER -> {}

\* C9: the role gate (verifyRole and requireRoles) lets a verified request
\* through if and only if the rights of its role meet the required roles,
\* and otherwise answers 403.
C9_RoleGateHierarchy ==
  (resp.op \in {"verifyRole", "requireRoles"} /\ TokenVerifies(resp.tok))
    => IF Granted(resp.tok.role) \cap resp.roles # {}
       THEN resp.status = "200"
       ELSE resp.status = "403"

\* the account a login request names, if it was registered
AccountOf(r) == {a \in accepted : a.email = ToLowerCase(r.email)}
LoginAnswered ==
  resp.op = "login" /\ resp.req.password # NoString /\ AccountOf(resp.req) # {}

\* C3: verifyToken(token, expectedType), the Auth Middleware and the
\* refresh-token endpoint each reject a token whose type differs from the
\* type they expect.
C3_WrongTypeRejected ==
  (/\ resp.op \in {"verifyToken", "status", "profile", "refreshToken"}
   /\ resp.tok.kind = "jwt"
   /\ resp.tok.type # resp.type) => Rejected

\* C5: a login with the email and the password accepted at registration
\* succeeds, and a login with any other password fails with Invalid
\* credentials (before any lockout applies).
C5_RegisteredPasswordLogsIn ==
  (LoginAnswered /\ resp.streak < 5) =>
    \A a \in AccountOf(resp.req) :
      IF resp.req.password = a.password
        THEN resp.status = "200"
        ELSE resp.status = "401" /\ resp.error = "Invalid credentials"

\* C7: after five consecutive failed logins for one account, a login within
\* 15 minutes of the fifth failure fails with a lockout error (not the
\* answer for a wrong password) whatever the password, and after the window
\* a login with the correct password succeeds.
C7_FiveFailuresLock ==
  (LoginAnswered /\ resp.streak >= 5) =>
    LET e == ToLowerCase(resp.req.email)
    IN IF now < streakAt[e] + LockDuration
         THEN Rejected /\ resp.error # "Invalid credentials"
         ELSE (\A a \in AccountOf(resp.req) : resp.req.password = a.password)
                => resp.status = "200"

SecretFields ==
  {"password", "githubToken", "githubAccessToken", "githubRefreshToken"}

StoredState ==
  IF mounted = "metrics" THEN session.githubState ELSE session.oauth2

\* a callback that logged a GitHub user in
OAuthSuccess == resp.op = "callback" /\ resp.user # NoUser

\* C11: once a callback carrying the stored state has been processed the
\* session no longer holds that state, and a later callback that presents
\* the same state again does not get through.
C11_StateSingleUse ==
  /\ (/\ resp.op = "callback"
      /\ resp.oauth.state # 0
      /\ resp.oauth.state = resp.oauth.stored) => StoredState # resp.oauth.state
  /\ (resp.op = "callback" /\ resp.oauth.replay)
       => resp.oauth.exchanged = 0 /\ resp.user = NoUser

\* C12: a callback that arrives more than AUTH_TIMEOUT after the
\* authorization was started is rejected before any token exchange.
C12_StaleCallbackRejected ==
  (/\ resp.op = "callback"
   /\ startedAt >= 0
   /\ (now - startedAt) * 1000 > AUTH_TIMEOUT)
  => resp.oauth.exchanged = 0 /\ resp.user = NoUser /\ resp.grant = NoGrant

\* C13: tokens issued at the end of the OAuth flow name a user of the User
\* collection as their subject.
C13_TokensNameLocalUser ==
  (resp.op = "callback" /\ resp.grant # NoGrant)
  => \E u \in users : u._id = resp.grant.accessToken.id

C15_RefreshCookieSet ==
  OAuthSuccess =>
    /\ resp.grant # NoGrant
    /\ \E c \in resp.cookies :
         /\ c.name = "refreshToken"
         /\ c.value = resp.grant.refreshToken
         /\ c.httpOnly
         /\ c.sameSite \in {"lax", "strict"}

C17_NoLostIncrement ==
  InFlight = {} => loginAttempts.count = SumDone(Requests)

\* C18: revoking a token that is already revoked (and not yet expired)
\* completes without error and leaves its id in the revocation set.
C18_RevokeIdempotent ==
  (/\ resp.op = "revokeToken"
   /\ resp.tok \in revokeDone
   /\ resp.type = resp.tok.type
   /\ now < resp.tok.exp)
  => resp.status = "returned" /\ resp.tok.jti \in revokedTokens

\* C19: after a sweep the revocation set holds no id of a token whose
\* expiry has passed and still holds the id of every revoked token that has
\* not expired.
C19_SweepRemovesExpiredOnly ==
  resp.op = "clearExpiredTokens" =>
    \A tok \in revokeDone :
      /\ tok.exp < now => tok.jti \notin revokedTokens
      /\ tok.exp > now => tok.jti \in revokedTokens

\* C20: a successful refresh issues no new refresh token, and the refresh
\* token it was given still verifies as a refresh token.
C20_NoRotation ==
  (/\ resp.op \in {"refreshAccessToken", "refreshToken"}
   /\ resp.status \in {"returned", "200"})
  => /\ resp.grant.refreshToken = NoTok
     /\ resp.cookies = {}
     /\ verifyToken(resp.tok, TOKEN_TYPES.REFRESH, revokedTokens, now).ok

\* C21: every access token the Token Service has minted, by generateTokens
\* or by refreshAccessToken, carries a jti, the subject id, the username,
\* the role and type access.
C21_AccessTokenClaims ==
  \A g \in grants :
    LET a == g.accessToken
    IN /\ a.jti # 0
       /\ a.id # Undefined
       /\ a.username # Undefined
       /\ a.role # Undefined
       /\ a.type = TOKEN_TYPES.ACCESS

\* C22: verifyToken, validateToken, the Auth Middleware and the role gate
\* each reject a token signed with the server's secret whose audience or
\* issuer is not the pinned one.
C22_AudienceIssuerPinned ==
  (/\ resp.op \in {"verifyToken", "validateToken", "status", "requireRoles",
                   "verifyRole"}
   /\ resp.tok.kind = "jwt"
   /\ resp.tok.key \in {JWT_SECRET, REFRESH_TOKEN_SECRET}
   /\ \/ resp.tok.aud # PinnedOpts(NoDuration).audience
      \/ resp.tok.iss # PinnedOpts(NoDuration).issuer)
  => Rejected

\* C23: the role of every stored user and the role claim of every access
\* token issued is one of student, mentor, admin.
C23_RolesAreEnumerated ==
  /\ \A u \in users : u.role \in {"student", "mentor", "admin"}
  /\ \A g \in grants : g.accessToken.role \in {"student", "mentor", "admin"}

\* C24: the Auth Middleware answers 401 without passing the request on, with
\* NoToken when the Authorization header is absent, InvalidFormat when it
\* does not start with "Bearer ", EmptyToken when nothing but blanks follows;
\* in every other case the request is passed on exactly when the token,
\* blanks trimmed, verifies.
C24_HeaderClassified ==
  resp.op \in {"status", "requireRoles"} =>
    LET h == resp.header
        stopped(error) ==
          /\ resp.status = "401" /\ resp.error = error
          /\ resp.trace = <<"verifyToken">>
        v == JwtVerify(h.tok, JWT_SECRET, PinnedOpts(JWT_EXPIRATION), now)
    IN IF ~h.present THEN stopped(AUTH_ERRORS.NO_TOKEN)
       ELSE IF h.prefix # "Bearer " THEN stopped(AUTH_ERRORS.INVALID_FORMAT)
       ELSE IF h.tok = NoTok THEN stopped(AUTH_ERRORS.EMPTY_TOKEN)
       ELSE IF v.ok /\ h.tok.id # Undefined /\ h.tok.username # Undefined
         THEN Len(resp.trace) > 1 /\ resp.user.id = h.tok.id
       ELSE stopped(AUTH_ERRORS.EXPIRED) \/ stopped(AUTH_ERRORS.INVALID)

\* a valid token behind "Bearer " and blanks is accepted
C24_Witness ==
  /\ resp.op = "status" /\ resp.header.lead
  /\ resp.header.tok.kind = "jwt" /\ resp.status = "200"

\* the cookies a response sets (a cleared cookie has no value)
CookiesSet(r) == {c.name : c \in {x \in r.cookies : x.value # NoTok}}
CookiesCleared(r) == {c.name : c \in {x \in r.cookies : x.value = NoTok}}

\* C25: a logout request that passes the Auth Middleware is answered with
\* success whether or not the session still holds anything, leaves no
\* session behind, and clears the session cookies, the refreshToken cookie
\* and every cookie the response before it had set.
C25_LogoutClearsEverything ==
  /\ [](resp.op = "logout" /\ TokenVerifies(resp.tok)
          => resp.status = "200" /\ session = NoSession)
  /\ [][resp'.op = "logout" /\ resp'.status = "200"
          => CookiesSet(resp) \cup {"code_tutor.sid", "refreshToken"}
               \subseteq CookiesCleared(resp')]_vars

\* C30: a token that authenticated a successful logout is rejected by the
\* Auth Middleware from then on.
C30_LogoutRevokesToken ==
  (resp.op = "status" /\ resp.tok \in loggedOut) => Rejected

\* C26: GET /auth/status with an expired access token is answered 401 with
\* a body whose isAuthenticated is false.
C26_ExpiredStatusIs401 ==
  (/\ resp.op = "status"
   /\ resp.tok.kind = "jwt" /\ resp.tok.key = JWT_SECRET
   /\ now >= resp.tok.exp)
  => /\ resp.status = "401"
     /\ "isAuthenticated" \in DOMAIN resp.body
     /\ resp.body.isAuthenticated = FALSE

\* C27: a callback for a GitHub account that exposes no primary email logs
\* nobody in and issues no tokens.
C27_NoPrimaryEmailFails ==
  (resp.op = "callback" /\ ~resp.oauth.primaryEmail)
  => /\ resp.user = NoUser
     /\ resp.grant = NoGrant
     /\ session.user = ""

\* C28: a callback that brings a code and logs nobody in is answered with a
\* redirect to the login page that carries one of the error codes.
C28_FailureRedirectsWithCode ==
  (resp.op = "callback" /\ resp.oauth.code /\ resp.user = NoUser)
  => /\ resp.status = "302"
     /\ resp.oauth.location = "/login"
     /\ resp.error \in {"validation_failed", "github_auth_failed",
                        "callback_failed"}

\* C29: a login with the registered password that follows three or more
\* failed logins in a row for the account, all within one lock duration,
\* fails, and with an error other than the credential error.
C29_ThreeFailuresLock ==
  (/\ LoginAnswered
   /\ resp.streak >= 3
   /\ now < LockDuration
   /\ \A a \in AccountOf(resp.req) : resp.req.password = a.password)
  => Rejected /\ resp.error # "Invalid credentials"

\* C31: an unexpired access token that refreshAccessToken returned is
\* accepted by the Auth Middleware, which attaches the subject of the
\* refresh token it was made from.
C31_RefreshedTokenAccepted ==
  (/\ resp.op = "status"
   /\ resp.tok \in {g.accessToken : g \in grants \ Generated}
   /\ now < resp.tok.exp)
  => /\ resp.status = "200"
     /\ \E g \in Generated : g.refreshToken.id = resp.user.id

\* the password policy: at least 8 characters, with an upper-case letter, a
\* lower-case letter, a digit and a character that is neither letter nor digit
MeetsPolicy(password) ==
  /\ password # NoString
  /\ LET c == password.chars
     IN /\ Len(c) >= 8
        /\ \E i \in 1..Len(c) : c[i] \in UpperCase
        /\ \E i \in 1..Len(c) : c[i] \in LowerCase
        /\ \E i \in 1..Len(c) : c[i] \in Digits
        /\ \E i \in 1..Len(c) : c[i] \notin UpperCase \cup LowerCase \cup Digits

\* C32: a registration with a missing field or a password that does not
\* meet the policy is answered 400 and creates no user, issues no tokens
\* and sets no cookie.
C32_InvalidRegistrationRefused ==
  [][(/\ resp'.op = "register"
      /\ \/ resp'.req.username = Undefined
         \/ resp'.req.email = Undefined
         \/ ~MeetsPolicy(resp'.req.password))
     => /\ resp'.status = "400"
        /\ users' = users /\ grants' = grants
        /\ resp'.grant = NoGrant /\ resp'.cookies = {}]_vars

\* C33: the stored failure count is the number of failures recorded since
\* the last reset; a lockout expiry is set exactly when that count is at
\* least 5, and is then 15 minutes after the latest failure; after a reset
\* the count is 0 and no expiry is set.
C33_CounterAndLockout ==
  /\ loginAttempts.count = failures.sinceReset
  /\ loginAttempts.lockedUntil # 0 <=> loginAttempts.count >= 5
  /\ loginAttempts.count >= 5
       => loginAttempts.lockedUntil = failures.lastAt + LockDuration
  /\ resp.op = "resetLoginAttempts"
       => loginAttempts = [count |-> 0, lockedUntil |-> 0]

\* a sixth failure recorded later than the fifth moves the expiry
C33_Witness ==
  /\ resp.op = "handleFailedLogin"
  /\ loginAttempts.count = 6
  /\ now > 0 /\ loginAttempts.lockedUntil = now + LockDuration

\* two answered registrations that name the same username or the same
\* email (compared without case)
SameAccount(a, b) ==
  \/ registering[a].username = registering[b].username
  \/ ToLowerCase(registering[a].email) = ToLowerCase(registering[b].email)

\* C34: of two registrations with a valid password for the same username or
\* email, both answered, exactly one is answered 201 and the other 400 or
\* 409, and at most one user exists for them.
C34_OneWinnerOneConflict ==
  \A a, b \in Requests :
    (/\ a # b
     /\ registering[a].pc = "done" /\ registering[b].pc = "done"
     /\ isPasswordValid(registering[a].password)
     /\ isPasswordValid(registering[b].password)
     /\ SameAccount(a, b))
    => /\ Cardinality(users) <= 1
       /\ {registering[a].status, registering[b].status} \in
            {{"201", "400"}, {"201", "409"}}

\* C35: a logout request that has passed the token verification is in the
\* end answered, with one response, whether or not the session store
\* reports an error, and no exception leaves the handler.
C35_LogoutAlwaysAnswered ==
  /\ (logoutCall.pc = "destroying")
       ~> (logoutCall.pc = "answered" /\ logoutCall.responses = 1)
  /\ [](logoutCall.pc # "uncaughtException")

\* a login request with both fields whose email no stored user has
UnknownEmail(r) ==
  r.email # Undefined /\ r.password # NoString /\ FindByEmail(r.email) = {}

\* a login request for a stored user with a password that user never chose
WrongPassword(r) ==
  /\ r.email # Undefined /\ r.password # NoString
  /\ FindByEmail(r.email) # {}
  /\ [email |-> ToLowerCase(r.email), password |-> r.password] \notin accepted

\* C36: of two password logins answered one after the other by the same
\* handler, one for an unknown email and one for a known email with a wrong
\* password, both get the same status code and the same error body.
C36_LoginDoesNotRevealAccounts ==
  [][(/\ resp.op \in {"login", "legacyLogin"}
      /\ resp'.op = resp.op
      /\ users' = users /\ accepted' = accepted
      /\ \/ UnknownEmail(resp.req) /\ WrongPassword(resp'.req)
         \/ WrongPassword(resp.req) /\ UnknownEmail(resp'.req))
     => /\ resp'.status = resp.status
        /\ resp'.error = resp.error
        /\ resp'.body = resp.body]_vars

MapKeys(m) == {e.key : e \in m}

\* C38: in every state of an OctokitCache the keys with a pending expiry
\* timer are the keys in the cache, each of them has one pending timer, the
\* one the intervals map holds, and that timer is due one TTL after the
\* key's latest set, before which the key does not leave by expiry and
\* after which it is not kept.
C38_TimersMatchEntries ==
  LET c == octokitCache
  IN /\ {x.key : x \in c.timers} = MapKeys(c.entries)
     /\ MapKeys(c.intervals) = MapKeys(c.entries)
     /\ \A x, y \in c.timers : x.key = y.key => x = y
     /\ \A i, j \in c.intervals : i.key = j.key => i = j
     /\ \A x \in c.timers :
          /\ MapGet(c.intervals, x.key) = x.id
          /\ x.due = lastSet[x.key].at + c.ttl
          /\ now <= x.due

\* a key set a second time, later than the first, is in the cache one TTL
\* after the second set, which is past the time its first timer was due
C38_Witness ==
  \E e \in octokitCache.entries :
    /\ lastSet[e.key].again
    /\ now = lastSet[e.key].at + octokitCache.ttl

NextToken ==
  \/ Tick(UnitSeconds("h"))
  \/ \E u \in {x \in UserObjects : x.id = "u1"} : GenerateTokens(u)
  \/ \E tok \in Presentable, type \in {"access", "refresh"} :
       VerifyTokenCall(tok, type)
  \/ \E tok \in Presentable : ValidateTokenCall(tok)
  \/ \E tok \in Presentable, type \in {"access", "refresh"} :
       RevokeTokenCall(tok, type)
  \/ ClearExpiredTokens
  \/ \E tok \in Presentable : RefreshAccessTokenCall(tok)

SpecToken == Init /\ [][NextToken]_vars

\* revocations and sweeps, past the expiry of an access token
NextSweep ==
  \/ Tick(UnitSeconds("h") + 1)
  \/ \E u \in {x \in UserObjects : x.id = "u1"} : GenerateTokens(u)
  \/ \E tok \in Presentable, type \in {"access", "refresh"} :
       RevokeTokenCall(tok, type)
  \/ ClearExpiredTokens

SpecSweep == Init /\ [][NextSweep]_vars

\* revocation against the request-time verification paths
NextAuth ==
  \/ \E d \in TickSteps : Tick(d)
  \/ \E u \in {x \in UserObjects : x.id = "u1"} : GenerateTokens(u)
  \/ \E tok \in Presentable : RevokeTokenCall(tok, TOKEN_TYPES.ACCESS)
  \/ \E tok \in Presentable : ValidateTokenCall(tok)
  \/ \E h \in Headers : StatusCall(h)
  \/ \E h \in Headers : VerifyRoleCall({"student"}, h)

SpecAuth == Init /\ [][NextAuth]_vars

\* issue, refresh, then use the refreshed token on a protected route
NextRefresh ==
  \/ \E d \in TickSteps : Tick(d)
  \/ \E u \in {x \in UserObjects : x.id = "u1"} : GenerateTokens(u)
  \/ \E tok \in Presentable : RefreshAccessTokenCall(tok)
  \/ \E h \in Headers : StatusCall(h)

SpecRefresh == Init /\ [][NextRefresh]_vars

\* the role gate
NextGate ==
  \/ Tick(UnitSeconds("h"))
  \/ \E u \in UserObjects : GenerateTokens(u)
  \/ \E h \in Headers : StatusCall(h)
  \/ \E roles \in RoleSets, h \in Headers : RequireRolesCall(roles, h)
  \/ \E roles \in RoleSets, h \in Headers : VerifyRoleCall(roles, h)
  \/ \E stack \in {teacherAuthStack, adminAuthStack}, h \in Headers :
       CourseRouteCall(stack, h)

SpecGate == Init /\ [][NextGate]_vars

\* the Auth Middleware, given every form of Authorization header
HeaderForms ==
  Headers \cup {BearerPadded(tok) : tok \in Presentable \cup {NoTok}}

NextHeader ==
  \/ \E d \in TickSteps : Tick(d)
  \/ \E u \in {x \in UserObjects : x.id = "u1"} : GenerateTokens(u)
  \/ \E h \in HeaderForms : StatusCall(h)
  \/ \E roles \in RoleSets, h \in HeaderForms : RequireRolesCall(roles, h)

SpecHeader == Init /\ [][NextHeader]_vars

\* every verification path, given tokens pinned to other audiences/issuers
PinnedHeaders ==
  {Bearer(tok) : tok \in IssuedTokens \cup {OtherAudience, OtherIssuer, Forged}}

NextPinned ==
  \/ \E d \in TickSteps : Tick(d)
  \/ \E u \in {x \in UserObjects : x.id = "u1"} : GenerateTokens(u)
  \/ \E h \in PinnedHeaders, type \in {"access", "refresh"} :
       VerifyTokenCall(h.tok, type)
  \/ \E h \in PinnedHeaders : ValidateTokenCall(h.tok)
  \/ \E h \in PinnedHeaders : StatusCall(h)
  \/ \E roles \in RoleSets, h \in PinnedHeaders : RequireRolesCall(roles, h)
  \/ \E roles \in RoleSets, h \in PinnedHeaders : VerifyRoleCall(roles, h)

SpecPinned == Init /\ [][NextPinned]_vars

\* accounts: registration, password login, refresh, profile, status
NextUser ==
  \/ \E u \in Usernames, e \in AliceEmails, p \in Passwords :
       \E s1 \in Salts : \E s2 \in Salts \ {s1} : RegisterUser(u, e, p, s1, s2)
  \/ \E u \in Usernames, e \in AliceEmails, p \in Passwords :
       \E s1 \in Salts : \E s2 \in Salts \ {s1} : LegacyRegisterUser(u, e, p, s1, s2)
  \/ \E e \in AliceEmails, p \in Passwords : LoginUser(e, p)
  \/ \E tok \in Presentable \cup {NoTok} : RefreshTokenEndpoint(tok)
  \/ \E h \in Headers : GetProfile(h)
  \/ \E h \in Headers : StatusCall(h)
  \/ \E tok \in Presentable, type \in {"access", "refresh"} :
       VerifyTokenCall(tok, type)

SpecUser == Init /\ [][NextUser]_vars

\* password logins over time
NextLock ==
  \/ Tick(LockDuration)
  \/ \E u \in Usernames, e \in AliceEmails, p \in Passwords :
       \E s1 \in Salts : \E s2 \in Salts \ {s1} : RegisterUser(u, e, p, s1, s2)
  \/ \E e \in AliceEmails, p \in Passwords : LoginUser(e, p)

SpecLock == Init /\ [][NextLock]_vars

\* password logins and refreshes of known, unknown and disabled accounts
LoginEmails == {"alice@x.com", "bob@x.com"}

NextLogin ==
  \/ \E p \in Passwords :
       RegisterUser("alice", "alice@x.com", p, "salt1", "salt2")
  \/ \E e \in LoginEmails, p \in Passwords : LoginUser(e, p)
  \/ \E e \in LoginEmails, p \in Passwords : LegacyLoginUser(e, p)
  \/ \E tok \in Presentable \cup {NoTok} : RefreshTokenEndpoint(tok)
  \/ \E i \in 1..Len(UserIds) : Deactivate(UserIds[i])

SpecLogin == Init /\ [][NextLogin]_vars

\* the Octokit cache under set, delete, clear, getOctokit and expiries
NextCache ==
  \/ \E d \in CacheTickSteps : CacheTick(d)
  \/ \E key \in AccessTokens, value \in Octokits : CacheSet(key, value)
  \/ \E key \in AccessTokens : CacheDelete(key)
  \/ CacheClear
  \/ \E accessToken \in AccessTokens : GetOctokit(accessToken)
  \/ \E timer \in octokitCache.timers : TimerFires(timer)

SpecCache == Init /\ [][NextCache]_vars

\* registrations, by either controller
NextRegister ==
  \/ \E u \in Usernames, e \in Emails, p \in Passwords :
       \E s1 \in Salts : \E s2 \in Salts \ {s1} : RegisterUser(u, e, p, s1, s2)
  \/ \E u \in Usernames, e \in Emails, p \in Passwords :
       \E s1 \in Salts : \E s2 \in Salts \ {s1} :
         LegacyRegisterUser(u, e, p, s1, s2)

SpecRegister == Init /\ [][NextRegister]_vars

\* registrations with missing fields and weak passwords
NextValidate ==
  \/ \E u \in {"alice", Undefined}, e \in {"alice@x.com", Undefined},
        p \in Passwords \cup WeakPasswords :
       \E s1 \in Salts : \E s2 \in Salts \ {s1} : RegisterUser(u, e, p, s1, s2)
  \/ \E u \in {"alice", Undefined}, e \in {"alice@x.com", Undefined},
        p \in Passwords \cup WeakPasswords :
       \E s1 \in Salts : \E s2 \in Salts \ {s1} :
         LegacyRegisterUser(u, e, p, s1, s2)

SpecValidate == Init /\ [][NextValidate]_vars

\* failed logins recorded by requests that overlap
NextRace ==
  \/ Tick(LockDuration)
  \/ \E r \in Requests : LoadUser(r)
  \/ \E r \in Requests : HandleFailedLogin(r)

SpecRace == Init /\ [][NextRace]_vars

\* registrations that overlap
NextOverlap ==
  \/ \E r \in Requests, u \in Usernames, e \in Emails,
        p \in {Plain(Append(Abcd1234, "!")), Plain(Abcd1234)} :
       RegisterLookup(r, u, e, p, "salt1", "salt2")
  \/ \E r \in Requests : RegisterSave(r)

SpecOverlap == Init /\ [][NextOverlap]_vars

\* failed logins and resets recorded one after the other
AttemptTickSteps == {60, 300, 600, LockDuration, 1200, 1800, 3600}

NextAttempts ==
  \/ \E d \in AttemptTickSteps : Tick(d)
  \/ HandleFailedLoginCall
  \/ ResetLoginAttemptsCall

SpecAttempts == Init /\ [][NextAttempts]_vars

\* the GitHub OAuth flow, under either githubRoutes.js
InitOAuth == InitBase /\ mounted \in {"metrics", "simplified"}

NextOAuth ==
  \/ \E d \in OAuthTickSteps : Tick(d)
  \/ StartMetrics
  \/ \E q \in Queries, p \in Providers : CallbackMetrics(q, p)
  \/ StartSimplified
  \/ \E q \in Queries, p \in Providers : CallbackSimplified(q, p)

SpecOAuth == InitOAuth /\ [][NextOAuth]_vars

\* a GitHub login, then requests with the token it issued
NextLogout ==
  \/ \E d \in TickSteps : Tick(d)
  \/ StartSimplified
  \/ \E q \in Queries, p \in Providers : CallbackSimplified(q, p)
  \/ \E h \in Headers : Logout(h)
  \/ \E h \in Headers : StatusCall(h)

SpecLogout == Init /\ [][NextLogout]_vars

\* logouts whose session.destroy may fail; the store always calls back
NextDestroy ==
  \/ \E d \in TickSteps : Tick(d)
  \/ \E u \in UserObjects : GenerateTokens(u)
  \/ \E h \in Headers, routes \in AuthRoutes : LogoutRequest(h, routes)
  \/ \E err \in BOOLEAN : SessionDestroyed(err)

SpecDestroy ==
  Init /\ [][NextDestroy]_vars /\ WF_vars(\E err \in BOOLEAN : SessionDestroyed(err))

====
